---- MODULE Spec2Model ----
(***************************************************************************)
(* Model of the cross-process coordination code of leo-services:           *)
(*   - kraken/kraken_nonce.py   get_nonce(), the file-locked nonce counter *)
(*   - kraken/kraken_*.py       k_private(), the signing of private calls  *)
(*   - kraken/usd_allocator.py  get_allocatable_usd(), the USD allocator   *)
(*                                                                         *)
(* Spec       : processes calling get_nonce() concurrently on one nonce    *)
(*              file, and a wall clock.                                    *)
(* SpecSign   : Spec together with the workers signing private requests.   *)
(* SpecAlloc  : get_allocatable_usd applied to inputs drawn from bounded   *)
(*              sets.  USD amounts are integers counting 1/UnitsPerCent of *)
(*              a cent.                                                    *)
(* SpecFair   : the callers of get_nonce() under fair scheduling.          *)
(* SpecTick   : one worker script (BTC, ETH/SOL, XMR, XRP) run tick after  *)
(*              tick: load_state, engine_tick, save_state or exit 1.       *)
(* SpecHist   : SpecTick with a record of what earlier ticks sent out.     *)
(* SpecSink   : SpecTick with Telegram and the event log failing.          *)
(* SpecPool   : the buys of three workers on one USD balance.              *)
(* SpecFleet  : the workers side by side in one working directory.         *)
(* SpecPair   : two invocations of one worker on the same state file.      *)
(* SpecMes    : mes_swing.py and mes_scalp.py and the global lock file.    *)
(***************************************************************************)
EXTENDS Integers, Sequences, FiniteSets, TLC

(***************************************************************************)
(* Bounds of the model                                                     *)
(***************************************************************************)
NumProcs == 2
\* processes that call get_nonce()

MaxCalls == 3
\* get_nonce() calls started in one behaviour

MaxClock == 3
\* last wall-clock millisecond the model reaches

MaxStored == 2
\* largest integer the nonce file holds initially

MaxRequests == 2
\* private requests signed in one behaviour

AllocRadius == 3
\* allocator inputs lie within this many units of each boundary amount

UnitsPerCent == 5
\* resolution of USD amounts: one unit is 1/UnitsPerCent of a cent

LockWaitBound == 1
\* milliseconds a caller may stay blocked on the lock under a bounded wait

MaxTicks == 4
\* ticks a worker starts in one behaviour

MaxFleetTicks == 2
\* ticks the workers start between them when they run side by side

MaxPairStarts == 3
\* invocations of one worker script started in one behaviour

MaxMesStarts == 4
\* MES processes started in one behaviour

MaxMesOrders == 2
\* orders one MES cycle places

AssetScale == 100
\* resolution of the workers' amounts: USD and asset volumes are integers
\* counting 1/AssetScale (the code rounds volumes to 8 decimals)

Procs == 1..NumProcs

Workers == {"BTC", "ETH", "XMR"}

VARIABLES
    nonce_file,   \* content of NONCE_FILE: [kind, val]
    lockHolders,  \* processes holding the flock on NONCE_FILE
    clock,        \* wall clock, int(time.time() * 1000)
    pc,           \* pc[p]: position of process p inside get_nonce()
    data,         \* data[p]: f.read().strip()
    last,         \* last[p]
    now,          \* now[p]
    nonce,        \* nonce[p]
    waited,       \* waited[p]: milliseconds p has been blocked in flock
    calls,        \* number of get_nonce() calls started
    issued,       \* history: values written to the file, in lock order
    returned,     \* history: values returned, in return order
    signed,       \* history: private requests, in signing order
    alloc,        \* one call of get_allocatable_usd: inputs, position, result
    env,          \* the worker script that runs and its *_USD_SLICE_INIT
    state_file,   \* STATE_FILE of the worker: <<>> or <<state record>>
    wpc,          \* position of the worker process in its tick
    tick,         \* the running tick: in-memory state s and what it did
    ticks,        \* number of ticks started
    hours,        \* wall clock of the worker, time.time() in hours
    hist,         \* history: what earlier ticks of the worker sent out
    twin,         \* what the running tick would do with every delivery fine
    account,      \* the shared Kraken account and the buys running on it
    files,        \* the working directory shared by the workers' scripts
    mes,          \* the MES processes and the flock on /tmp/mes_global.lock
    pair          \* two invocations of one worker script that overlap

fleetVars == <<account, files, mes, pair>>

tickVars == <<env, state_file, wpc, tick, ticks, hours, hist, twin>>

workerVars == <<tickVars, fleetVars>>

vars == <<nonce_file, lockHolders, clock, pc, data, last, now, nonce, waited,
          calls, issued, returned, signed, alloc, workerVars>>

nonceVars == <<nonce_file, lockHolders, clock, pc, data, last, now, nonce,
               waited, calls, issued, returned, signed>>

Max(a, b) == IF a >= b THEN a ELSE b

Min(a, b) == IF a <= b THEN a ELSE b

(***************************************************************************)
(* kraken_nonce.py: the nonce file                                         *)
(***************************************************************************)
FileAbsent == [kind |-> "absent", val |-> 0]

FileEmpty == [kind |-> "empty", val |-> 0]

FileBlank == [kind |-> "blank", val |-> 0]
\* whitespace only

FileGarbage == [kind |-> "garbage", val |-> 0]
\* non-empty text that int() rejects

FileInt(n) == [kind |-> "int", val |-> n]

\* str.strip(): whitespace-only text becomes the empty string
Strip(c) == IF c.kind = "blank" THEN FileEmpty ELSE c

\* open(NONCE_FILE, "a+"): creates the file when it does not exist
OpenAppend(c) == IF c.kind = "absent" THEN FileEmpty ELSE c

ParseLastValueZero(d) == 0

\* last = int(data) if data else 0   (defined when int() accepts data)
ParseLastValue(d) == IF d.kind = "empty" THEN 0 ELSE d.val

\* int(data) raises ValueError
ParseFails(d) == d.kind = "garbage"

ComputeNonceNoIncrement(n, l) == Max(n, l)

ComputeNonceNoClock(n, l) == l + 1

\* nonce = max(now, last + 1)
ComputeNonce(n, l) == Max(n, l + 1)

FlockGuardShared(p) == TRUE

\* fcntl.flock(f, LOCK_EX) returns only when no other process holds the lock
FlockGuard(p) == lockHolders = {}

NoAlloc == [pc |-> "unused", asset |-> "", total |-> 0, committed |-> 0,
            result |-> 0]

InitialFiles ==
    {FileAbsent, FileEmpty, FileBlank, FileGarbage}
        \cup {FileInt(n) : n \in 0..MaxStored}

NonceIdle ==
    /\ lockHolders = {}
    /\ clock = 1
    /\ pc = [p \in Procs |-> "idle"]
    /\ data = [p \in Procs |-> FileEmpty]
    /\ last = [p \in Procs |-> 0]
    /\ now = [p \in Procs |-> 0]
    /\ nonce = [p \in Procs |-> 0]
    /\ waited = [p \in Procs |-> 0]
    /\ calls = 0
    /\ issued = <<>>
    /\ returned = <<>>
    /\ signed = <<>>

\* no worker script runs
TickIdle ==
    /\ env = [variant |-> "", usd_slice_init |-> 0]
    /\ state_file = <<>>
    /\ wpc = "unused"
    /\ tick = <<>>
    /\ ticks = 0
    /\ hours = 0
    /\ hist = <<>>
    /\ twin = <<>>

WorkerIdle ==
    TickIdle /\ account = <<>> /\ files = <<>> /\ mes = <<>> /\ pair = <<>>

Init ==
    /\ nonce_file \in InitialFiles
    /\ NonceIdle
    /\ alloc = NoAlloc
    /\ WorkerIdle

\* a process enters get_nonce()
GetNonceCall(p) ==
    /\ pc[p] \in {"idle", "raised"}
    /\ calls < MaxCalls
    /\ calls' = calls + 1
    /\ pc' = [pc EXCEPT ![p] = "open"]
    /\ UNCHANGED <<nonce_file, lockHolders, clock, data, last, now, nonce,
                   waited, issued, returned, signed, alloc,
                   workerVars>>

\* line 10: with open(NONCE_FILE, "a+") as f
Open(p) ==
    /\ pc[p] = "open"
    /\ nonce_file' = OpenAppend(nonce_file)
    /\ pc' = [pc EXCEPT ![p] = "flock"]
    /\ UNCHANGED <<lockHolders, clock, data, last, now, nonce, waited, calls,
                   issued, returned, signed, alloc,
                   workerVars>>

\* line 11: fcntl.flock(f, fcntl.LOCK_EX)
Flock(p) ==
    /\ pc[p] = "flock"
    /\ FlockGuard(p)
    /\ lockHolders' = lockHolders \cup {p}
    /\ waited' = [waited EXCEPT ![p] = 0]
    /\ pc' = [pc EXCEPT ![p] = "read"]
    /\ UNCHANGED <<nonce_file, clock, data, last, now, nonce, calls, issued,
                   returned, signed, alloc,
                   workerVars>>

\* lines 12-13: f.seek(0); data = f.read().strip()
ReadData(p) ==
    /\ pc[p] = "read"
    /\ data' = [data EXCEPT ![p] = Strip(nonce_file)]
    /\ pc' = [pc EXCEPT ![p] = "parse"]
    /\ UNCHANGED <<nonce_file, lockHolders, clock, last, now, nonce, waited,
                   calls, issued, returned, signed, alloc,
                   workerVars>>

\* line 14: last = int(data) if data else 0
ParseLast(p) ==
    /\ pc[p] = "parse"
    /\ ~ParseFails(data[p])
    /\ last' = [last EXCEPT ![p] = ParseLastValue(data[p])]
    /\ pc' = [pc EXCEPT ![p] = "now"]
    /\ UNCHANGED <<nonce_file, lockHolders, clock, data, now, nonce, waited,
                   calls, issued, returned, signed, alloc,
                   workerVars>>

ParseRaiseKeepsLock(p) ==
    /\ pc[p] = "parse"
    /\ ParseFails(data[p])
    /\ pc' = [pc EXCEPT ![p] = "raised"]
    /\ UNCHANGED <<nonce_file, lockHolders, clock, data, last, now, nonce,
                   waited, calls, issued, returned, signed, alloc,
                   workerVars>>

\* line 14: int(data) raises ValueError; leaving the with block closes f,
\* which drops the lock; the exception reaches the caller
ParseRaise(p) ==
    /\ pc[p] = "parse"
    /\ ParseFails(data[p])
    /\ lockHolders' = lockHolders \ {p}
    /\ pc' = [pc EXCEPT ![p] = "raised"]
    /\ UNCHANGED <<nonce_file, clock, data, last, now, nonce, waited, calls,
                   issued, returned, signed, alloc,
                   workerVars>>

\* lines 15-16: now = int(time.time() * 1000); nonce = max(now, last + 1)
ReadClock(p) ==
    /\ pc[p] = "now"
    /\ now' = [now EXCEPT ![p] = clock]
    /\ nonce' = [nonce EXCEPT ![p] = ComputeNonce(clock, last[p])]
    /\ pc' = [pc EXCEPT ![p] = "truncate"]
    /\ UNCHANGED <<nonce_file, lockHolders, clock, data, last, waited, calls,
                   issued, returned, signed, alloc,
                   workerVars>>

\* lines 17-18: f.seek(0); f.truncate()
SeekTruncate(p) ==
    /\ pc[p] = "truncate"
    /\ nonce_file' = FileEmpty
    /\ pc' = [pc EXCEPT ![p] = "write"]
    /\ UNCHANGED <<lockHolders, clock, data, last, now, nonce, waited, calls,
                   issued, returned, signed, alloc,
                   workerVars>>

\* lines 19-20: f.write(str(nonce)); f.flush()
WriteFlush(p) ==
    /\ pc[p] = "write"
    /\ nonce_file' = FileInt(nonce[p])
    /\ issued' = Append(issued, [proc |-> p, last |-> last[p],
                                 now |-> now[p], nonce |-> nonce[p]])
    /\ pc' = [pc EXCEPT ![p] = "unlock"]
    /\ UNCHANGED <<lockHolders, clock, data, last, now, nonce, waited, calls,
                   returned, signed, alloc,
                   workerVars>>

\* line 21: fcntl.flock(f, fcntl.LOCK_UN)
Unlock(p) ==
    /\ pc[p] = "unlock"
    /\ lockHolders' = lockHolders \ {p}
    /\ pc' = [pc EXCEPT ![p] = "return"]
    /\ UNCHANGED <<nonce_file, clock, data, last, now, nonce, waited, calls,
                   issued, returned, signed, alloc,
                   workerVars>>

\* line 22: return nonce (the caller receives the value)
Return(p) ==
    /\ pc[p] = "return"
    /\ returned' = Append(returned, nonce[p])
    /\ pc' = [pc EXCEPT ![p] = "idle"]
    /\ data' = [data EXCEPT ![p] = FileEmpty]
    /\ last' = [last EXCEPT ![p] = 0]
    /\ now' = [now EXCEPT ![p] = 0]
    /\ nonce' = [nonce EXCEPT ![p] = 0]
    /\ UNCHANGED <<nonce_file, lockHolders, clock, waited, calls, issued,
                   signed, alloc,
                   workerVars>>

\* a process is blocked inside flock(): it asked for the lock, another holds it
Blocked(p) == pc[p] = "flock" /\ ~FlockGuard(p)

\* one millisecond of wall-clock time passes
Tick ==
    /\ clock < MaxClock
    /\ clock' = clock + 1
    /\ waited' = [p \in Procs |->
                     IF Blocked(p) THEN waited[p] + 1 ELSE waited[p]]
    /\ UNCHANGED <<nonce_file, lockHolders, pc, data, last, now, nonce, calls,
                   issued, returned, signed, alloc,
                   workerVars>>

(***************************************************************************)
(* kraken_btc.py / kraken_eth.py / kraken_xmr.py: k_private                *)
(***************************************************************************)
\* the value get_nonce() issued last, as a sequence of at most one value
LastIssued == IF issued = <<>> THEN <<>> ELSE <<issued[Len(issued)].nonce>>

\* nonce = str(int(time.time() * 1000)); the request is signed over it
k_private(w) ==
    /\ Len(signed) < MaxRequests
    /\ signed' = Append(signed, [worker |-> w, nonce |-> clock,
                                 lastIssued |-> LastIssued])
    /\ UNCHANGED <<nonce_file, lockHolders, clock, pc, data, last, now, nonce,
                   waited, calls, issued, returned, alloc,
                   workerVars>>

Next ==
    \/ \E p \in Procs : GetNonceCall(p)
    \/ \E p \in Procs : Open(p)
    \/ \E p \in Procs : Flock(p)
    \/ \E p \in Procs : ReadData(p)
    \/ \E p \in Procs : ParseLast(p)
    \/ \E p \in Procs : ParseRaise(p)
    \/ \E p \in Procs : ReadClock(p)
    \/ \E p \in Procs : SeekTruncate(p)
    \/ \E p \in Procs : WriteFlush(p)
    \/ \E p \in Procs : Unlock(p)
    \/ \E p \in Procs : Return(p)
    \/ Tick

Spec == Init /\ [][Next]_vars

\* what a process inside get_nonce() does next, once it has the lock or
\* before it asks for it
Proceed(p) ==
    \/ Open(p)
    \/ ReadData(p)
    \/ ParseLast(p)
    \/ ParseRaise(p)
    \/ ReadClock(p)
    \/ SeekTruncate(p)
    \/ WriteFlush(p)
    \/ Unlock(p)
    \/ Return(p)

\* fair scheduling: a process inside get_nonce() keeps running, and a
\* process waiting in flock() gets the lock if it is free again and again
Fairness ==
    \A p \in Procs : WF_vars(Proceed(p)) /\ SF_vars(Flock(p))

\* the callers of get_nonce() within one millisecond of the wall clock
NextFair ==
    \E p \in Procs : GetNonceCall(p) \/ Flock(p) \/ Proceed(p)

SpecFair == Init /\ [][NextFair]_vars /\ Fairness

\* the coordinator's callers together with the workers' private requests
NextSign ==
    \/ Next
    \/ \E w \in Workers : k_private(w)

SpecSign == Init /\ [][NextSign]_vars

(***************************************************************************)
(* usd_allocator.py                                                        *)
(***************************************************************************)
UnitsPerUsd == 100 * UnitsPerCent

\* ASSET_LIMITS_USD, in units
ASSET_LIMITS_USD ==
    [a \in {"BTC", "ETH", "XMR", "SOL", "XRP"} |-> 100 * UnitsPerUsd]

\* MIN_TRADE_USD = 10.0, in units
MIN_TRADE_USD == 10 * UnitsPerUsd

\* str.upper() on the asset symbols the model feeds in
Upper(a) ==
    CASE a = "btc" -> "BTC"
      [] a = "xmr" -> "XMR"
      [] OTHER -> a

RoundCentsDown(x) == (x \div UnitsPerCent) * UnitsPerCent

\* round(x, 2): the nearest whole cent, a tie going to the even cent
RoundCents(x) ==
    LET q == x \div UnitsPerCent
        r == x % UnitsPerCent
    IN  IF 2 * r < UnitsPerCent THEN q * UnitsPerCent
        ELSE IF 2 * r > UnitsPerCent THEN (q + 1) * UnitsPerCent
        ELSE IF q % 2 = 0 THEN q * UnitsPerCent
        ELSE (q + 1) * UnitsPerCent

\* asset not in ASSET_LIMITS_USD: raise ValueError
UnknownAsset(asset) == Upper(asset) \notin DOMAIN ASSET_LIMITS_USD

get_allocatable_usd_round_first(asset, usd_total_available, usd_committed_by_asset) ==
    LET asset_cap == ASSET_LIMITS_USD[Upper(asset)]
        asset_remaining == asset_cap - usd_committed_by_asset
        tradeable_usd == RoundCents(Min(asset_remaining, usd_total_available))
    IN  IF asset_remaining <= 0 THEN 0
        ELSE IF tradeable_usd < MIN_TRADE_USD THEN 0
        ELSE tradeable_usd

\* get_allocatable_usd for a configured asset
get_allocatable_usd(asset, usd_total_available, usd_committed_by_asset) ==
    LET asset_cap == ASSET_LIMITS_USD[Upper(asset)]
        asset_remaining == asset_cap - usd_committed_by_asset
        tradeable_usd == Min(asset_remaining, usd_total_available)
    IN  IF asset_remaining <= 0 THEN 0
        ELSE IF tradeable_usd < MIN_TRADE_USD THEN 0
        ELSE RoundCents(tradeable_usd)

Window(c) == (c - AllocRadius)..(c + AllocRadius)

AssetInputs == {"BTC", "ETH", "XMR", "SOL", "XRP", "btc", "xmr", "DOGE"}

TotalInputs ==
    Window(0) \cup Window(MIN_TRADE_USD) \cup Window(100 * UnitsPerUsd)
        \cup Window(200 * UnitsPerUsd)

CommittedInputs ==
    Window(0) \cup Window(50 * UnitsPerUsd)
        \cup Window(100 * UnitsPerUsd - MIN_TRADE_USD)
        \cup Window(100 * UnitsPerUsd)

InitAlloc ==
    /\ nonce_file = FileAbsent
    /\ NonceIdle
    /\ alloc \in [pc : {"call"}, asset : AssetInputs, total : TotalInputs,
                  committed : CommittedInputs, result : {0}]
    /\ WorkerIdle

\* the call returns a value
AllocReturn ==
    /\ alloc.pc = "call"
    /\ ~UnknownAsset(alloc.asset)
    /\ alloc' = [alloc EXCEPT
                    !.pc = "returned",
                    !.result = get_allocatable_usd(alloc.asset, alloc.total,
                                                   alloc.committed)]
    /\ UNCHANGED <<nonceVars, workerVars>>

\* the call raises ValueError
AllocRaise ==
    /\ alloc.pc = "call"
    /\ UnknownAsset(alloc.asset)
    /\ alloc' = [alloc EXCEPT !.pc = "raised"]
    /\ UNCHANGED <<nonceVars, workerVars>>

NextAlloc ==
    \/ AllocReturn
    \/ AllocRaise

SpecAlloc == InitAlloc /\ [][NextAlloc]_vars

(***************************************************************************)
(* Claims about get_nonce() and k_private                                  *)
(***************************************************************************)
StrictlyIncreasing(q) == \A i, j \in DOMAIN q : i < j => q[i] < q[j]

NoRepeats(q) == \A i, j \in DOMAIN q : i # j => q[i] # q[j]

IssuedValues == [i \in DOMAIN issued |-> issued[i].nonce]

\* positions of get_nonce() between taking the lock and releasing it
CriticalSection == {"read", "parse", "now", "truncate", "write", "unlock"}

C2_RequestCarriesIssuedValue ==
    \A i \in DOMAIN signed : signed[i].lastIssued = <<signed[i].nonce>>

\* C3: the sequence values of the signed private requests, in signing
\* order, are strictly increasing across all workers.
C3_SignedStrictlyIncreasing ==
    \A i, j \in DOMAIN signed : i < j => signed[i].nonce < signed[j].nonce

\* C4: at most one process is between taking and releasing the lock, the
\* read and the write of a call happen while it holds the lock, and the new
\* value is in the file when the lock is about to be released.
C4_MutualExclusion ==
    /\ Cardinality(lockHolders) <= 1
    /\ \A p \in Procs :
          /\ pc[p] \in CriticalSection <=> p \in lockHolders
          /\ pc[p] = "unlock" => nonce_file = FileInt(nonce[p])

\* one process is about to release the lock with its value in the file
\* while another has been blocked in flock()
C4_Witness ==
    \E p, q \in Procs :
        /\ pc[p] = "unlock"
        /\ nonce_file = FileInt(nonce[p])
        /\ pc[q] = "flock"
        /\ waited[q] > 0

\* C5 (as claimed): a value about to be returned is strictly greater than
\* the stored value read under the lock and strictly greater than the
\* wall-clock milliseconds read during the call.
C5_StrictlyAboveClock ==
    \A p \in Procs :
        pc[p] = "return" => nonce[p] > last[p] /\ nonce[p] > now[p]

\* C5 (amended): a value about to be returned is strictly greater than the
\* stored value read under the lock and greater than or equal to the
\* wall-clock milliseconds read during the call.
C5_AboveStoredAtLeastClock ==
    \A p \in Procs :
        pc[p] = "return" => nonce[p] > last[p] /\ nonce[p] >= now[p]

\* a call returns exactly the clock value it read, the file having held a
\* smaller positive integer
C5_Witness ==
    \E p \in Procs :
        /\ pc[p] = "return"
        /\ last[p] > 0
        /\ nonce[p] = now[p]

\* C6: a call that read non-empty text that is no integer does not fail
\* (it goes on as if the file were absent).
C6_MalformedTreatedAsAbsent ==
    \A p \in Procs : ParseFails(data[p]) => pc[p] # "raised"

\* C7: no caller stays blocked on the lock for longer than the bounded
\* wait (it would have failed with CoordinatorUnavailable by then).
C7_BoundedLockWait ==
    \A p \in Procs : pc[p] = "flock" => waited[p] <= LockWaitBound

(***************************************************************************)
(* Claims about get_allocatable_usd                                        *)
(***************************************************************************)
AllocCap == ASSET_LIMITS_USD[Upper(alloc.asset)]

AllocRemaining == AllocCap - alloc.committed

\* min(cap - committed, usd_total_available), before any rounding
AllocUnconstrained == Min(AllocRemaining, alloc.total)

\* C8: the returned amount r satisfies committed + r <= cap(asset).
C8_CapRespected ==
    alloc.pc = "returned" => alloc.committed + alloc.result <= AllocCap

\* C9 (as claimed): the result is 0 when remaining <= 0; otherwise it is
\* v = min(remaining, total) rounded to cents, or 0 when the rounded v is
\* below MIN_TRADE_USD.
C9_MinimumOnRoundedValue ==
    alloc.pc = "returned" =>
        alloc.result =
            IF AllocRemaining <= 0 THEN 0
            ELSE IF RoundCents(AllocUnconstrained) < MIN_TRADE_USD THEN 0
            ELSE RoundCents(AllocUnconstrained)

\* C9 (amended): the result is 0 when remaining <= 0 or when the unrounded
\* min(remaining, total) is below MIN_TRADE_USD; otherwise it is a whole
\* number of cents nearest to min(remaining, total).
C9_MinimumOnUnroundedValue ==
    alloc.pc = "returned" =>
        IF AllocRemaining <= 0 \/ AllocUnconstrained < MIN_TRADE_USD
        THEN alloc.result = 0
        ELSE /\ alloc.result % UnitsPerCent = 0
             /\ 2 * (alloc.result - AllocUnconstrained) <= UnitsPerCent
             /\ 2 * (AllocUnconstrained - alloc.result) <= UnitsPerCent

\* the free balance is below the minimum but rounds up to it, the asset
\* has room, and the call returned 0
C9_Witness ==
    /\ alloc.pc = "returned"
    /\ AllocRemaining > alloc.total
    /\ alloc.total < MIN_TRADE_USD
    /\ RoundCents(alloc.total) = MIN_TRADE_USD
    /\ alloc.result = 0

\* C10: the result is exactly 0 whenever min(cap - committed, total) is
\* below MIN_TRADE_USD.
C10_ZeroBelowMinimum ==
    alloc.pc = "returned" /\ AllocUnconstrained < MIN_TRADE_USD
        => alloc.result = 0

\* the room left under the cap is positive, below the minimum and rounds up
\* to it, the free balance is larger, and the call returned 0
C10_Witness ==
    /\ alloc.pc = "returned"
    /\ AllocRemaining > 0
    /\ AllocRemaining < MIN_TRADE_USD
    /\ RoundCents(AllocRemaining) = MIN_TRADE_USD
    /\ alloc.total > AllocRemaining
    /\ alloc.result = 0

(***************************************************************************)
(* kraken_btc.py, kraken_eth.py (kraken_sol.py is the same engine),        *)
(* kraken_xmr.py, kraken_xrp.py: the per-asset swing workers.              *)
(* Prices are whole USD; thresholds are tenths of a percent.               *)
(***************************************************************************)
None == 0

BUY_PULLBACK == -30

BUY_APPROACH == -25

SELL_TARGET == 50

SELL_APPROACH == 40

DRAWDOWN_RESET == -120

SELL_FRACTION_PCT == 25

HEARTBEAT_INTERVAL_HOURS == 4

MIN_USD_BALANCE == 10 * AssetScale

Variants == {"BTC", "ETH", "XMR", "XRP"}

\* workers that fetch the balances at the start of the tick and move an
\* idle state to hold when the asset balance is positive
AssetInHand == {"ETH", "XRP"}

\* market prices the ticker returns
Prices == {170, 194, 195, 200, 202, 204}

\* asset balances the exchange reports
AssetBalances == {0, AssetScale \div 10, (4 * AssetScale) \div 10}

\* USD balances the exchange reports
UsdBalances == {0, 5 * AssetScale, 20 * AssetScale}

\* values of <ASSET>_USD_SLICE_INIT
SliceInits == {0, 20 * AssetScale}

\* what can go wrong with the exchange in one tick
\* (rate_limited: the Balance call of execute_buy / execute_sell is answered
\* with EAPI:Rate limit exceeded)
Failures ==
    {"none", "price", "balances0", "balance", "rate_limited",
     "order_rejected", "order_lost"}

\* sink_ok: Telegram and the event log accept what is sent in this tick
TickInputs ==
    [price : Prices, asset0 : AssetBalances, asset : AssetBalances,
     usd : UsdBalances, fail : Failures, sink_ok : BOOLEAN]

\* pct(a, b) <= t and pct(a, b) >= t, t in tenths of a percent
pct_le(a, b, t) == IF a = None THEN 0 <= t ELSE (b - a) * 1000 <= t * a

pct_ge(a, b, t) == IF a = None THEN 0 >= t ELSE (b - a) * 1000 >= t * a

\* round(n / d): the nearest integer, a tie going to the even one
RoundDiv(n, d) ==
    LET q == n \div d
        r == n % d
    IN  IF 2 * r < d THEN q
        ELSE IF 2 * r > d THEN q + 1
        ELSE IF q % 2 = 0 THEN q
        ELSE q + 1

DEFAULT_STATE ==
    [mode |-> "idle", entry_price |-> None, last_swing_high |-> None,
     last_swing_low |-> None, buy_approach_sent |-> FALSE,
     sell_approach_sent |-> FALSE, entry_time |-> None, usd_slice |-> None,
     last_heartbeat |-> None]

\* load_state(): the file over the defaults; a state without a file takes
\* its usd_slice from the environment
load_state(file, e) ==
    IF file = <<>>
    THEN [DEFAULT_STATE EXCEPT !.usd_slice = e.usd_slice_init]
    ELSE file[1]

NewTick(s, t) ==
    [s |-> s, pre |-> s, now |-> t, price |-> None, asset0 |-> 0,
     asset_bal |-> 0, usd_bal |-> 0, branch |-> "", called |-> {},
     executed |-> FALSE, orders |-> <<>>, events |-> <<>>, alerts |-> <<>>,
     exc |-> FALSE, failed |-> FALSE, rate_limited |-> FALSE,
     sink_ok |-> TRUE, warnings |-> 0, writes |-> 0]

\* an exception is raised
Raise(c) == [c EXCEPT !.exc = TRUE, !.failed = TRUE]

\* an exception is caught by the except clause around it
Caught(c) == [c EXCEPT !.exc = FALSE, !.failed = TRUE]

\* log_event: the append is tried; a failure is printed and swallowed
log_event(c, type, reason) ==
    [c EXCEPT !.events = Append(@, [type |-> type, reason |-> reason]),
              !.warnings = IF c.sink_ok THEN @ ELSE @ + 1]

tg_send_raising(c, msg) ==
    IF c.sink_ok
    THEN [c EXCEPT !.alerts = Append(@, msg)]
    ELSE [c EXCEPT !.alerts = Append(@, msg), !.exc = TRUE, !.failed = TRUE]

\* tg_send: the request is tried; a failure is printed and swallowed
tg_send(c, msg) ==
    [c EXCEPT !.alerts = Append(@, msg),
              !.warnings = IF c.sink_ok THEN @ ELSE @ + 1]

place_market_order_twice(c, side, volume, in) ==
    LET call == [side |-> side, volume |-> volume,
                 executed |-> in.fail # "order_rejected"]
    IN  [c EXCEPT !.orders = Append(Append(@, call), call)]

\* place_market_order: one AddOrder call; the exchange may reject it, or
\* execute it and the response be lost; both raise
place_market_order(c, side, volume, in) ==
    LET call == [side |-> side, volume |-> volume,
                 executed |-> in.fail # "order_rejected"]
        placed == [c EXCEPT !.orders = Append(@, call)]
    IN  IF in.fail \in {"order_rejected", "order_lost"}
        THEN Raise(placed)
        ELSE placed

BoughtStateNoEntry(v, s, price, spend, t) ==
    [s EXCEPT !.usd_slice = Max(0, @ - spend),
              !.entry_time = t,
              !.mode = "hold",
              !.sell_approach_sent = FALSE]

BoughtStateKeepsSlice(v, s, price, spend, t) ==
    LET s1 == [s EXCEPT !.entry_price = price,
                        !.entry_time = t,
                        !.mode = "hold",
                        !.sell_approach_sent = FALSE]
    IN  IF v = "ETH" THEN [s1 EXCEPT !.last_swing_low = price] ELSE s1

\* the state changes of a buy that went through
BoughtState(v, s, price, spend, t) ==
    LET s1 == [s EXCEPT !.usd_slice = Max(0, @ - spend),
                        !.entry_price = price,
                        !.entry_time = t,
                        !.mode = "hold",
                        !.sell_approach_sent = FALSE]
    IN  IF v = "ETH" THEN [s1 EXCEPT !.last_swing_low = price] ELSE s1

TooSmallToBuyZeroOnly(usd_avail) == usd_avail <= 0

\* usd_avail < MIN_USD_BALANCE: the buy is skipped
TooSmallToBuy(usd_avail) == usd_avail < MIN_USD_BALANCE

execute_buy(v, c, in) ==
    LET c0 == [c EXCEPT !.called = @ \cup {"execute_buy"},
                        !.rate_limited = (in.fail = "rate_limited")]
    IN  IF in.fail \in {"balance", "rate_limited"}
        THEN IF v = "XMR"
             THEN log_event(tg_send(Caught(c0), "buy_error_balance"),
                            "buy_error_balance", "")
             ELSE Raise(c0)
        ELSE
        LET c1 == [c0 EXCEPT !.usd_bal = in.usd, !.asset_bal = in.asset]
            slice_before == c1.s.usd_slice
            usd_avail == Min(slice_before, in.usd)
            volume == RoundDiv(usd_avail, c1.price)
        IN  IF TooSmallToBuy(usd_avail)
            THEN CASE v = "BTC" -> tg_send(c1, "buy_skipped")
                   [] v = "XMR" -> log_event(tg_send(c1, "buy_skipped"),
                                             "buy_skipped_min_usd_slice", "")
                   [] OTHER -> c1
            ELSE IF v = "XMR" /\ volume <= 0
            THEN log_event(tg_send(c1, "buy_skipped"),
                           "buy_skipped_zero_volume", "")
            ELSE
            LET c2 == place_market_order(c1, "buy", volume, in)
            IN  IF c2.exc
                THEN IF v = "XMR"
                     THEN log_event(tg_send(Caught(c2), "buy_error_order"),
                                    "buy_error_addorder", "")
                     ELSE c2
                ELSE log_event(
                        tg_send([c2 EXCEPT
                                    !.s = BoughtState(v, @, c2.price,
                                                      usd_avail, c2.now),
                                    !.executed = TRUE],
                                "buy_executed"),
                        "buy", "")

SoldStateNoCredit(v, s, notional) == [s EXCEPT !.mode = "reset"]

SoldStateStaysHold(v, s, notional) ==
    [s EXCEPT !.usd_slice = @ + notional]

\* the state changes of a sell that went through
SoldState(v, s, notional) ==
    LET s1 == [s EXCEPT !.usd_slice = @ + notional, !.mode = "reset"]
    IN  IF v = "ETH" THEN [s1 EXCEPT !.sell_approach_sent = FALSE] ELSE s1

sell_volume_all(asset_bal) == asset_bal

\* volume = round(asset_bal * SELL_FRACTION, 8)
sell_volume(asset_bal) == RoundDiv(asset_bal * SELL_FRACTION_PCT, 100)

execute_sell(v, reason, c, in) ==
    LET c0 == [c EXCEPT !.called = @ \cup {"execute_sell"},
                        !.rate_limited = (in.fail = "rate_limited")]
    IN  IF in.fail \in {"balance", "rate_limited"}
        THEN IF v = "XMR"
             THEN log_event(tg_send(Caught(c0), "sell_error_balance"),
                            "sell_error_balance", reason)
             ELSE Raise(c0)
        ELSE
        LET c1 == [c0 EXCEPT !.usd_bal = in.usd, !.asset_bal = in.asset]
            volume == sell_volume(in.asset)
            notional == volume * c1.price
        IN  IF (v = "XMR" /\ volume <= 0) \/ notional < MIN_USD_BALANCE
            THEN IF v = "XMR"
                 THEN log_event(tg_send(c1, "sell_skipped"),
                                "sell_skipped_min_size", reason)
                 ELSE c1
            ELSE
            LET c2 == place_market_order(c1, "sell", volume, in)
            IN  IF c2.exc
                THEN IF v = "XMR"
                     THEN log_event(tg_send(Caught(c2), "sell_error_order"),
                                    "sell_error_addorder", reason)
                     ELSE c2
                ELSE log_event(
                        tg_send([c2 EXCEPT
                                    !.s = SoldState(v, @, notional),
                                    !.executed = TRUE],
                                "sell_executed"),
                        "sell", reason)

WithS(c, s) == [c EXCEPT !.s = s]

update_swing_high_keeps_flag(s, price) ==
    LET s1 == IF s.last_swing_high = None
              THEN [s EXCEPT !.last_swing_high = price]
              ELSE s
    IN  IF price > s1.last_swing_high
        THEN [s1 EXCEPT !.last_swing_high = price]
        ELSE s1

\* the swing high follows the price up; a new high re-arms the buy alert
update_swing_high(s, price) ==
    LET s1 == IF s.last_swing_high = None
              THEN [s EXCEPT !.last_swing_high = price]
              ELSE s
    IN  IF price > s1.last_swing_high
        THEN [s1 EXCEPT !.last_swing_high = price,
                        !.buy_approach_sent = FALSE]
        ELSE s1

update_swing_extremes_low_kept(s, price) ==
    LET s1 == IF s.last_swing_high = None
              THEN [s EXCEPT !.last_swing_high = price]
              ELSE s
        s2 == IF s1.last_swing_low = None
              THEN [s1 EXCEPT !.last_swing_low = price]
              ELSE s1
    IN  IF price > s2.last_swing_high
        THEN [s2 EXCEPT !.last_swing_high = price,
                        !.buy_approach_sent = FALSE]
        ELSE s2

update_swing_extremes(s, price) ==
    LET s1 == IF s.last_swing_high = None
              THEN [s EXCEPT !.last_swing_high = price]
              ELSE s
        s2 == IF s1.last_swing_low = None
              THEN [s1 EXCEPT !.last_swing_low = price]
              ELSE s1
        s3 == IF price > s2.last_swing_high
              THEN [s2 EXCEPT !.last_swing_high = price,
                              !.buy_approach_sent = FALSE]
              ELSE s2
    IN  IF s3.mode = "hold" /\ price < s3.last_swing_low
        THEN [s3 EXCEPT !.last_swing_low = price]
        ELSE s3

ensure_hold_if_asset_present_skipped(s, asset_bal, price) == s

ensure_hold_if_asset_present(s, asset_bal, price) ==
    IF asset_bal > 0 /\ s.mode = "idle"
    THEN LET s1 == [s EXCEPT !.mode = "hold", !.sell_approach_sent = FALSE]
         IN  IF s1.last_swing_low = None
             THEN [s1 EXCEPT !.last_swing_low = price]
             ELSE s1
    ELSE s

detect_initial_position_any_balance(s, asset_bal, price) ==
    IF s.mode = "idle"
    THEN [s EXCEPT !.entry_price = IF @ = None THEN price ELSE @,
                   !.mode = "hold",
                   !.sell_approach_sent = FALSE]
    ELSE s

detect_initial_position(s, asset_bal, price) ==
    IF asset_bal > 0 /\ s.mode = "idle"
    THEN [s EXCEPT !.entry_price = IF @ = None THEN price ELSE @,
                   !.mode = "hold",
                   !.sell_approach_sent = FALSE]
    ELSE s

maybe_send_heartbeat(c) ==
    IF c.now - c.s.last_heartbeat < HEARTBEAT_INTERVAL_HOURS
    THEN c
    ELSE [tg_send(c, "heartbeat") EXCEPT !.s.last_heartbeat = c.now]

\* engine_tick up to the mode branches: the price, the balances where the
\* worker fetches them first, the swing extremes, the heartbeat
tick_start(v, c, in) ==
    IF in.fail = "price"
    THEN Raise(c)
    ELSE
    LET c1 == [c EXCEPT !.price = in.price]
    IN  IF v \notin AssetInHand
        THEN WithS(c1, update_swing_high(c1.s, c1.price))
        ELSE IF in.fail = "balances0"
        THEN Raise(c1)
        ELSE
        LET c2 == [c1 EXCEPT !.asset0 = in.asset0]
        IN  IF v = "ETH"
            THEN maybe_send_heartbeat(WithS(c2,
                    update_swing_extremes(
                        ensure_hold_if_asset_present(c2.s, in.asset0,
                                                     c2.price),
                        c2.price)))
            ELSE maybe_send_heartbeat(WithS(c2,
                    detect_initial_position(
                        update_swing_high(c2.s, c2.price),
                        in.asset0, c2.price)))

idle_branch(v, c, in) ==
    LET s == c.s
        approach == /\ ~s.buy_approach_sent
                    /\ pct_le(s.last_swing_high, c.price, BUY_APPROACH)
        flagged == [c EXCEPT !.s.buy_approach_sent = TRUE]
        c1 == IF ~approach THEN c
              ELSE IF v = "XMR" THEN tg_send(flagged, "buy_approach")
              ELSE flagged
    IN  IF pct_le(s.last_swing_high, c.price, BUY_PULLBACK)
        THEN LET c2 == execute_buy(v, c1, in)
             IN  IF v # "XMR" THEN c2
                 ELSE IF c2.executed THEN tg_send(c2, "buy_cycle_armed")
                 ELSE [c2 EXCEPT !.s.mode = "idle"]
        ELSE c1

\* the price the gain of a held position is measured from
pnl_anchor(v, s, price) ==
    IF v # "ETH" THEN s.entry_price
    ELSE IF s.last_swing_low = None THEN price
    ELSE s.last_swing_low

hold_branch(v, c, in) ==
    LET s == c.s
        anchor == pnl_anchor(v, s, c.price)
        drawdown == pct_le(anchor, c.price, DRAWDOWN_RESET)
        target == pct_ge(anchor, c.price, SELL_TARGET)
        near == pct_ge(anchor, c.price, SELL_APPROACH)
        flagged == tg_send([c EXCEPT !.s.sell_approach_sent = TRUE],
                           "sell_approach")
    IN  CASE v = "XMR" ->
             IF s.entry_price = None
             THEN [c EXCEPT !.s.mode = "idle"]
             ELSE IF drawdown
             THEN tg_send(execute_sell(v, "drawdown_reset",
                                       log_event(c, "drawdown_reset", ""),
                                       in),
                          "drawdown_reset")
             ELSE LET c1 == IF ~s.sell_approach_sent /\ near
                            THEN flagged ELSE c
                  IN  IF ~target THEN c1
                      ELSE LET c2 == execute_sell(v, "target", c1, in)
                           IN  IF c2.executed
                               THEN tg_send(c2, "sell_cycle_complete")
                               ELSE c2
          [] v = "ETH" ->
             LET c1 == IF ~s.sell_approach_sent /\ near /\ ~target
                       THEN flagged ELSE c
             IN  IF drawdown THEN execute_sell(v, "drawdown_reset", c1, in)
                 ELSE IF target THEN execute_sell(v, "target", c1, in)
                 ELSE c1
          [] OTHER ->
             IF drawdown THEN execute_sell(v, "drawdown_reset", c, in)
             ELSE IF target THEN execute_sell(v, "target", c, in)
             ELSE c

reset_branch_on_approach(v, c) ==
    IF pct_le(c.s.last_swing_high, c.price, BUY_APPROACH)
    THEN [c EXCEPT !.s.mode = "idle", !.s.buy_approach_sent = FALSE]
    ELSE c

reset_branch(v, c) ==
    IF pct_le(c.s.last_swing_high, c.price, BUY_PULLBACK)
    THEN LET c1 == [c EXCEPT !.s.mode = "idle",
                             !.s.buy_approach_sent = FALSE]
         IN  IF v = "XMR" THEN tg_send(c1, "reset_complete") ELSE c1
    ELSE c

\* engine_tick between load_state and save_state
engine_tick(v, c, in) ==
    LET c1 == tick_start(v, [c EXCEPT !.sink_ok = in.sink_ok], in)
        c2 == [c1 EXCEPT !.branch = c1.s.mode]
    IN  IF c1.exc THEN c1
        ELSE CASE c2.s.mode = "idle" -> idle_branch(v, c2, in)
               [] c2.s.mode = "hold" -> hold_branch(v, c2, in)
               [] c2.s.mode = "reset" -> reset_branch(v, c2)

\* nothing sent yet: no order that failed, no heartbeat
NoHistory == [failed_order |-> "", heartbeat |-> None]

\* time between two runs of the worker's timer
Elapsed == {HEARTBEAT_INTERVAL_HOURS \div 2}

InitTick ==
    /\ nonce_file = FileAbsent
    /\ NonceIdle
    /\ alloc = NoAlloc
    /\ env \in [variant : Variants, usd_slice_init : SliceInits]
    /\ state_file = <<>>
    /\ wpc = "start"
    /\ tick = <<>>
    /\ ticks = 0
    /\ hours = HEARTBEAT_INTERVAL_HOURS
    /\ hist = NoHistory
    /\ twin = <<>>
    /\ account = <<>>
    /\ files = <<>>
    /\ mes = <<>>
    /\ pair = <<>>

LoadStateWritesDefaults ==
    /\ wpc \in {"start", "done", "exited"}
    /\ ticks < MaxTicks
    /\ \E d \in Elapsed :
          /\ hours' = hours + d
          /\ tick' = [NewTick(load_state(state_file, env), hours + d)
                         EXCEPT !.writes = 1]
    /\ state_file' = <<load_state(state_file, env)>>
    /\ ticks' = ticks + 1
    /\ wpc' = "loaded"
    /\ UNCHANGED <<nonceVars, alloc, fleetVars, hist, twin, env>>

\* the timer starts the worker: s = load_state()
LoadState ==
    /\ wpc \in {"start", "done", "exited"}
    /\ ticks < MaxTicks
    /\ \E d \in Elapsed :
          /\ hours' = hours + d
          /\ tick' = NewTick(load_state(state_file, env), hours + d)
    /\ ticks' = ticks + 1
    /\ wpc' = "loaded"
    /\ UNCHANGED <<nonceVars, alloc, fleetVars, hist, twin, env, state_file>>

\* the inputs of a tick whose notifications and events are all delivered
DeliveredInputs ==
    [price : Prices, asset0 : AssetBalances, asset : AssetBalances,
     usd : UsdBalances, fail : Failures, sink_ok : {TRUE}]

\* the body of engine_tick against one set of exchange answers
RunTickWith(in) ==
    /\ wpc = "loaded"
    /\ tick' = engine_tick(env.variant, tick, in)
    /\ wpc' = "ran"
    /\ UNCHANGED <<nonceVars, alloc, fleetVars, env, state_file, ticks, hours>>

RunTick ==
    /\ wpc = "loaded"
    /\ \E in \in DeliveredInputs : RunTickWith(in)
    /\ UNCHANGED <<hist, twin>>

SaveStateAlways ==
    /\ wpc = "ran"
    /\ state_file' = <<tick.s>>
    /\ tick' = [tick EXCEPT !.writes = @ + 1]
    /\ wpc' = "done"
    /\ UNCHANGED <<nonceVars, alloc, fleetVars, hist, twin, env, ticks,
                   hours>>

\* save_state(s), the last statement of engine_tick
SaveState ==
    /\ wpc = "ran"
    /\ ~tick.exc
    /\ state_file' = <<tick.s>>
    /\ tick' = [tick EXCEPT !.writes = @ + 1]
    /\ wpc' = "done"
    /\ UNCHANGED <<nonceVars, alloc, fleetVars, hist, twin, env, ticks,
                   hours>>

\* the except clause of __main__: alert and sys.exit(1), nothing saved
ExitError ==
    /\ wpc = "ran"
    /\ tick.exc
    /\ tick' = tg_send(tick, "runtime_error")
    /\ wpc' = "exited"
    /\ UNCHANGED <<nonceVars, alloc, fleetVars, hist, twin, env, state_file,
                   ticks, hours>>

NextTick == LoadState \/ RunTick \/ SaveState \/ ExitError

SpecTick == InitTick /\ [][NextTick]_vars

\* what a tick adds to the history: the side of an order whose submission
\* failed in it, the time of the heartbeat it sent
Record(h, c) ==
    [failed_order |-> IF c.orders # <<>> /\ c.failed
                      THEN c.orders[1].side
                      ELSE "",
     heartbeat |-> IF \E i \in DOMAIN c.alerts : c.alerts[i] = "heartbeat"
                   THEN c.now
                   ELSE h.heartbeat]

\* RunTick, with what it sent out kept for the ticks that follow
RunTickRecorded ==
    /\ wpc = "loaded"
    /\ \E in \in DeliveredInputs :
          RunTickWith(in) /\ hist' = Record(hist, tick')
    /\ UNCHANGED twin

NextHist == LoadState \/ RunTickRecorded \/ SaveState \/ ExitError

SpecHist == InitTick /\ [][NextHist]_vars

\* what a tick decides: its state, the orders it submits, whether it aborts
Outcome(c) == [s |-> c.s, orders |-> c.orders, exc |-> c.exc]

\* the ticks of SpecSink: delivery works or not, the holdings are sellable
SinkInputs ==
    [price : Prices, asset0 : {0, (4 * AssetScale) \div 10},
     asset : {(4 * AssetScale) \div 10},
     usd : {5 * AssetScale, 20 * AssetScale}, fail : Failures,
     sink_ok : BOOLEAN]

\* RunTick where Telegram or the event log may refuse what is sent, with the
\* outcome of the same tick under working delivery kept beside it
RunTickTwin ==
    /\ wpc = "loaded"
    /\ \E in \in SinkInputs :
          /\ RunTickWith(in)
          /\ twin' = Outcome(engine_tick(env.variant, tick,
                                         [in EXCEPT !.sink_ok = TRUE]))
    /\ UNCHANGED hist

NextSink == LoadState \/ RunTickTwin \/ SaveState \/ ExitError

SpecSink == InitTick /\ [][NextSink]_vars

(***************************************************************************)
(* Several workers buying on the one Kraken account.  Each runs the buy of *)
(* its idle branch: execute_buy fetches the balances, then places the      *)
(* order; the workers are separate processes, so the two steps of one      *)
(* interleave with the steps of the others.                                *)
(***************************************************************************)
\* USD on the account when the workers start
PoolBalances == UsdBalances \cup {40 * AssetScale}

InitPool ==
    /\ nonce_file = FileAbsent
    /\ NonceIdle
    /\ alloc = NoAlloc
    /\ TickIdle
    /\ files = <<>>
    /\ mes = <<>>
    /\ pair = <<>>
    /\ \E usd \in PoolBalances, slices \in [Workers -> SliceInits] :
          account = [usd |-> usd, available |-> usd, slice |-> slices,
                     pc |-> [w \in Workers |-> "idle"],
                     usd_bal |-> [w \in Workers |-> 0],
                     submitted |-> 0, executed |-> 0, rejected |-> 0]

\* execute_buy: _, usd_bal = get_kraken_balances()
FetchBalances(w) ==
    /\ account.pc[w] = "idle"
    /\ account' = [account EXCEPT !.pc[w] = "fetched",
                                  !.usd_bal[w] = account.usd]
    /\ UNCHANGED <<nonceVars, alloc, tickVars, files, mes, pair>>

\* execute_buy: the minimum test fails, return False
SkipBuy(w) ==
    /\ account.pc[w] = "fetched"
    /\ TooSmallToBuy(Min(account.slice[w], account.usd_bal[w]))
    /\ account' = [account EXCEPT !.pc[w] = "skipped"]
    /\ UNCHANGED <<nonceVars, alloc, tickVars, files, mes, pair>>

\* execute_buy: place_market_order("buy", usd_to_spend / price); the
\* exchange fills it from the account, or rejects it for lack of funds
SubmitBuy(w) ==
    LET usd_to_spend == Min(account.slice[w], account.usd_bal[w])
    IN  /\ account.pc[w] = "fetched"
        /\ ~TooSmallToBuy(usd_to_spend)
        /\ account' =
              IF usd_to_spend <= account.usd
              THEN [account EXCEPT !.pc[w] = "bought",
                                   !.slice[w] = Max(0, @ - usd_to_spend),
                                   !.submitted = @ + usd_to_spend,
                                   !.executed = @ + usd_to_spend,
                                   !.usd = @ - usd_to_spend]
              ELSE [account EXCEPT !.pc[w] = "failed",
                                   !.submitted = @ + usd_to_spend,
                                   !.rejected = @ + usd_to_spend]
        /\ UNCHANGED <<nonceVars, alloc, tickVars, files, mes, pair>>

NextPool == \E w \in Workers : FetchBalances(w) \/ SkipBuy(w) \/ SubmitBuy(w)

SpecPool == InitPool /\ [][NextPool]_vars

(***************************************************************************)
(* The workers side by side in one working directory: each script run by   *)
(* its own timer, reading and writing the files it names.                  *)
(***************************************************************************)
STATE_FILE_shared(v) == "kraken_state.json"

STATE_FILE(v) ==
    CASE v = "BTC" -> "kraken_state_btc.json"
      [] v = "ETH" -> "kraken_state_eth.json"
      [] v = "XMR" -> "kraken_state_xmr.json"
      [] v = "XRP" -> "kraken_state_xrp.json"

LOG_FILE(v) ==
    CASE v = "BTC" -> "kraken_events_btc.jsonl"
      [] v = "ETH" -> "kraken_events_eth.jsonl"
      [] v = "XMR" -> "kraken_events_xmr.jsonl"
      [] v = "XRP" -> "kraken_events_xrp.jsonl"

Paths == {STATE_FILE(v) : v \in Variants} \cup {LOG_FILE(v) : v \in Variants}

\* exchange answers for the workers side by side: a price at, 3% under and
\* 2% over the first one, with or without the asset and funds, every failure
FleetInputs ==
    [price : {194, 200, 204}, asset0 : {0, (4 * AssetScale) \div 10},
     asset : {(4 * AssetScale) \div 10}, usd : {20 * AssetScale},
     fail : Failures, sink_ok : {TRUE}]

InitFleet ==
    /\ nonce_file = FileAbsent
    /\ NonceIdle
    /\ alloc = NoAlloc
    /\ TickIdle
    /\ account = <<>>
    /\ mes = <<>>
    /\ pair = <<>>
    /\ \E init \in SliceInits :
          files = [fs |-> [p \in Paths |-> <<>>],
                   run |-> [v \in Variants |-> <<>>],
                   usd_slice_init |-> init,
                   hours |-> HEARTBEAT_INTERVAL_HOURS,
                   started |-> 0,
                   last |-> ""]

\* worker v runs engine_tick up to its save_state (or its exception); what
\* it logs is appended to its LOG_FILE on the way
FleetRun(v) ==
    /\ files.run[v] = <<>>
    /\ files.started < MaxFleetTicks
    /\ \E in \in FleetInputs, d \in Elapsed :
          LET e == [variant |-> v, usd_slice_init |-> files.usd_slice_init]
              s == load_state(files.fs[STATE_FILE(v)], e)
              c == engine_tick(v, NewTick(s, files.hours + d), in)
          IN  files' = [files EXCEPT
                           !.fs[LOG_FILE(v)] = @ \o c.events,
                           !.run[v] = <<[s |-> c.s, exc |-> c.exc]>>,
                           !.hours = @ + d,
                           !.started = @ + 1,
                           !.last = v]
    /\ UNCHANGED <<nonceVars, alloc, tickVars, account, mes, pair>>

\* worker v ends its tick: save_state(s), or the except clause of __main__
FleetEnd(v) ==
    /\ files.run[v] # <<>>
    /\ files' = [files EXCEPT
                    !.fs[STATE_FILE(v)] =
                        IF files.run[v][1].exc THEN @
                        ELSE <<files.run[v][1].s>>,
                    !.run[v] = <<>>,
                    !.last = v]
    /\ UNCHANGED <<nonceVars, alloc, tickVars, account, mes, pair>>

NextFleet == \E v \in Variants : FleetRun(v) \/ FleetEnd(v)

SpecFleet == InitFleet /\ [][NextFleet]_vars

(***************************************************************************)
(* two invocations of one worker script on the same STATE_FILE             *)
(***************************************************************************)
Invocations == {1, 2}

\* what the exchange answers to the invocations
PairInputs ==
    [price : {194, 200}, asset0 : {0}, asset : {0, (4 * AssetScale) \div 10},
     usd : {20 * AssetScale}, fail : {"none", "order_rejected"},
     sink_ok : {TRUE}]

\* an invocation that has loaded the state and has not ended yet
Live(i) == pair.inv[i].pc \in {"loaded", "ran"}

NotStarted ==
    [pc |-> "off", ver |-> 0, with |-> {}, loaded |-> DEFAULT_STATE,
     s |-> DEFAULT_STATE, orders |-> <<>>, exc |-> FALSE]

InitPair ==
    /\ nonce_file = FileAbsent
    /\ NonceIdle
    /\ alloc = NoAlloc
    /\ TickIdle
    /\ account = <<>>
    /\ files = <<>>
    /\ mes = <<>>
    /\ \E e \in [variant : Variants, usd_slice_init : {20 * AssetScale}] :
          pair = [env |-> e, file |-> <<>>, ver |-> 1, starts |-> 0,
                  inv |-> [i \in Invocations |-> NotStarted]]

\* invocation i starts: s = load_state(); with: the invocations that have
\* loaded the same version of the file and are still running
PairLoad(i) ==
    /\ pair.inv[i].pc = "off"
    /\ pair.starts < MaxPairStarts
    /\ LET others == {j \in Invocations \ {i} :
                         Live(j) /\ pair.inv[j].ver = pair.ver}
           loaded == load_state(pair.file, pair.env)
       IN  pair' = [pair EXCEPT
                       !.starts = @ + 1,
                       !.inv = [j \in Invocations |->
                                   IF j = i
                                   THEN [pc |-> "loaded", ver |-> pair.ver,
                                         with |-> others, loaded |-> loaded,
                                         s |-> loaded, orders |-> <<>>,
                                         exc |-> FALSE]
                                   ELSE IF j \in others
                                   THEN [@[j] EXCEPT !.with = @ \cup {i}]
                                   ELSE @[j]]]
    /\ UNCHANGED <<nonceVars, alloc, tickVars, account, files, mes>>

\* invocation i runs engine_tick up to its save_state or its exception
PairRun(i) ==
    /\ pair.inv[i].pc = "loaded"
    /\ \E in \in PairInputs :
          LET c == engine_tick(pair.env.variant,
                               NewTick(pair.inv[i].loaded,
                                       HEARTBEAT_INTERVAL_HOURS),
                               in)
          IN  pair' = [pair EXCEPT !.inv[i].pc = "ran",
                                   !.inv[i].s = c.s,
                                   !.inv[i].orders = c.orders,
                                   !.inv[i].exc = c.exc]
    /\ UNCHANGED <<nonceVars, alloc, tickVars, account, files, mes>>

\* invocation i ends: save_state(s), or the except clause of __main__
PairEnd(i) ==
    /\ pair.inv[i].pc = "ran"
    /\ pair' = [pair EXCEPT
                   !.inv[i].pc = "off",
                   !.file = IF pair.inv[i].exc THEN @
                            ELSE <<pair.inv[i].s>>,
                   !.ver = IF pair.inv[i].exc THEN @ ELSE @ + 1]
    /\ UNCHANGED <<nonceVars, alloc, tickVars, account, files, mes>>

NextPair == \E i \in Invocations : PairLoad(i) \/ PairRun(i) \/ PairEnd(i)

SpecPair == InitPair /\ [][NextPair]_vars

(***************************************************************************)
(* mes/mes_swing.py and mes/mes_scalp.py: the global mutex                 *)
(***************************************************************************)
\* the MES scripts a timer may start: the swing trader, from two timers that
\* can overlap, and the scalper
MesProcs == {"swing1", "swing2", "scalp"}

\* the script takes the flock on /tmp/mes_global.lock when it is loaded:
\* mes_swing.py does, mes_scalp.py has no such statement
TakesGlobalLock(q) == q \in {"swing1", "swing2"}

InitMes ==
    /\ nonce_file = FileAbsent
    /\ NonceIdle
    /\ alloc = NoAlloc
    /\ TickIdle
    /\ account = <<>>
    /\ files = <<>>
    /\ pair = <<>>
    /\ mes = [pc |-> [q \in MesProcs |-> "off"],
              holders |-> {},
              orders |-> [q \in MesProcs |-> 0],
              refused |-> [q \in MesProcs |-> FALSE],
              starts |-> 0]

\* the timer starts the script
MesStart(q) ==
    /\ mes.pc[q] = "off"
    /\ mes.starts < MaxMesStarts
    /\ mes' = [mes EXCEPT !.pc[q] = "loading", !.orders[q] = 0,
                          !.refused[q] = FALSE, !.starts = @ + 1]
    /\ UNCHANGED <<nonceVars, alloc, tickVars, account, files, pair>>

\* mes_swing.py: flock(LOCK_EX | LOCK_NB) succeeds, the module goes on to
\* main(); mes_scalp.py: the module goes on to main_cycle()
MesEnterCycle(q) ==
    /\ mes.pc[q] = "loading"
    /\ TakesGlobalLock(q) => mes.holders = {}
    /\ mes' = [mes EXCEPT !.pc[q] = "cycle",
                          !.holders = IF TakesGlobalLock(q)
                                      THEN @ \cup {q} ELSE @]
    /\ UNCHANGED <<nonceVars, alloc, tickVars, account, files, pair>>

\* mes_swing.py: flock raises BlockingIOError, print and sys.exit(1)
MesRefused(q) ==
    /\ mes.pc[q] = "loading"
    /\ TakesGlobalLock(q)
    /\ mes.holders # {}
    /\ mes' = [mes EXCEPT !.pc[q] = "off", !.refused[q] = TRUE]
    /\ UNCHANGED <<nonceVars, alloc, tickVars, account, files, pair>>

\* place_order / oanda_place_market_order inside the cycle
MesPlaceOrder(q) ==
    /\ mes.pc[q] = "cycle"
    /\ mes.orders[q] < MaxMesOrders
    /\ mes' = [mes EXCEPT !.orders[q] = @ + 1]
    /\ UNCHANGED <<nonceVars, alloc, tickVars, account, files, pair>>

\* the cycle ends, normally or by an exception; mes_swing.py releases the
\* lock in its finally clause
MesExit(q) ==
    /\ mes.pc[q] = "cycle"
    /\ mes' = [mes EXCEPT !.pc[q] = "off", !.holders = @ \ {q}]
    /\ UNCHANGED <<nonceVars, alloc, tickVars, account, files, pair>>

NextMes ==
    \E q \in MesProcs :
        \/ MesStart(q)
        \/ MesEnterCycle(q)
        \/ MesRefused(q)
        \/ MesPlaceOrder(q)
        \/ MesExit(q)

SpecMes == InitMes /\ [][NextMes]_vars

(***************************************************************************)
(* Worker ticks: what a tick did, read off its context and the state file  *)
(***************************************************************************)
Abs(x) == IF x < 0 THEN -x ELSE x

\* the last tick ran to its save_state
Completed == wpc = "done"

\* min(usd_slice, live USD balance) at the buy of the last tick
Spendable == Min(tick.pre.usd_slice, tick.usd_bal)

\* the price is at least BUY_PULLBACK percent below the swing high
BuyTriggered == pct_le(tick.s.last_swing_high, tick.price, BUY_PULLBACK)

BuySubmitted == Len(tick.orders) = 1 /\ tick.orders[1].side = "buy"

\* C12 (as stated): after every completed tick the persisted state has
\* entry_price set if and only if mode is hold.
C12_EntrySetIffHold ==
    Completed =>
        (state_file[1].entry_price # None <=> state_file[1].mode = "hold")

\* C12 (amended): in the BTC, XMR and XRP workers, after every completed
\* tick, a persisted mode of hold or reset has entry_price set.
C12_HoldHasEntry ==
    Completed /\ env.variant # "ETH" =>
        (state_file[1].mode \in {"hold", "reset"}
            => state_file[1].entry_price # None)

C12_Witness ==
    /\ Completed
    /\ env.variant # "ETH"
    /\ tick.pre.mode = "idle"
    /\ state_file[1].mode = "hold"
    /\ state_file[1].entry_price = tick.price

\* C13 (as stated): a completed tick takes mode from idle to hold only if
\* the price is at least BUY_PULLBACK percent below the swing high, the
\* spendable amount is not below the minimum, and a market buy was submitted.
C13_IdleToHoldOnlyByBuy ==
    Completed /\ tick.pre.mode = "idle" /\ tick.s.mode = "hold" =>
        BuyTriggered /\ Spendable >= MIN_USD_BALANCE /\ BuySubmitted

\* C13 (amended): a completed tick takes mode from idle to hold only by a
\* triggered, funded, submitted market buy, or, in the workers that look at
\* the asset balance first, because that balance is positive, with no order.
C13_IdleToHoldByBuyOrAssetInHand ==
    Completed /\ tick.pre.mode = "idle" /\ tick.s.mode = "hold" =>
        \/ BuyTriggered /\ Spendable >= MIN_USD_BALANCE /\ BuySubmitted
        \/ /\ env.variant \in AssetInHand
           /\ tick.asset0 > 0
           /\ tick.orders = <<>>

C13_Witness ==
    /\ Completed
    /\ tick.pre.mode = "idle"
    /\ tick.s.mode = "hold"
    /\ BuySubmitted
    /\ tick.asset0 = 0

\* C14: a buy in idle that the exchange accepted spends min(usd_slice, live
\* USD balance), orders spend / price (to the nearest unit of volume), and
\* the tick ends with mode hold, entry_price the price, entry_time set, the
\* swing low (ETH) the price, the sell-approach flag cleared and the slice
\* debited by the amount spent.
C14_BuySpendsGrantedAndEntersHold ==
    Completed /\ tick.branch = "idle" /\ tick.orders # <<>> /\ ~tick.failed =>
        /\ BuySubmitted
        /\ 2 * Abs(tick.orders[1].volume * tick.price - Spendable)
              <= tick.price
        /\ state_file[1].mode = "hold"
        /\ state_file[1].entry_price = tick.price
        /\ state_file[1].entry_time = tick.now
        /\ state_file[1].entry_time # None
        /\ (env.variant = "ETH" => state_file[1].last_swing_low = tick.price)
        /\ ~state_file[1].sell_approach_sent
        /\ state_file[1].usd_slice = tick.pre.usd_slice - Spendable

C14_Witness ==
    /\ Completed
    /\ tick.branch = "idle"
    /\ BuySubmitted
    /\ ~tick.failed
    /\ tick.orders[1].volume > 0
    /\ Spendable = 20 * AssetScale

\* C15: when the buy trigger fires in idle and the spendable amount is below
\* the minimum trade size, no order is submitted and mode is still idle
\* after the tick.
C15_NoBuyBelowMinimum ==
    /\ Completed
    /\ tick.branch = "idle"
    /\ BuyTriggered
    /\ ~tick.failed
    /\ Spendable < MIN_USD_BALANCE
    => tick.orders = <<>> /\ state_file[1].mode = "idle"

C15_Witness ==
    /\ Completed
    /\ tick.branch = "idle"
    /\ BuyTriggered
    /\ ~tick.failed
    /\ Spendable > 0
    /\ Spendable < MIN_USD_BALANCE
    /\ "execute_buy" \in tick.called

\* the gain of the held position against the thresholds
Drawdown ==
    pct_le(pnl_anchor(env.variant, tick.s, tick.price), tick.price,
           DRAWDOWN_RESET)

Target ==
    pct_ge(pnl_anchor(env.variant, tick.s, tick.price), tick.price,
           SELL_TARGET)

\* volume * price of the sell of the last tick
SellNotional ==
    RoundDiv(tick.asset_bal * SELL_FRACTION_PCT, 100) * tick.price

\* one sell order went out, the state is reset, the sell is logged as reason
Sold(reason) ==
    /\ Len(tick.orders) = 1
    /\ tick.orders[1].side = "sell"
    /\ state_file[1].mode = "reset"
    /\ \E i \in DOMAIN tick.events :
          tick.events[i] = [type |-> "sell", reason |-> reason]

\* the fields of the persisted state that say what the worker holds
TradingState(s) == <<s.mode, s.entry_price, s.entry_time, s.usd_slice>>

\* the state the next tick would load
Persisted == load_state(state_file, env)

TickEnded == wpc \in {"done", "exited"}

\* C16 (as stated): a completed tick that starts in hold sells and moves to
\* reset, tagged drawdown_reset, if the gain is at or below DRAWDOWN_RESET;
\* otherwise sells and moves to reset, tagged target, if the gain is at or
\* above SELL_TARGET; otherwise stays in hold and submits no order.
C16_HoldSellsOnThreshold ==
    Completed /\ tick.pre.mode = "hold" =>
        IF Drawdown THEN Sold("drawdown_reset")
        ELSE IF Target THEN Sold("target")
        ELSE state_file[1].mode = "hold" /\ tick.orders = <<>>

\* C16 (amended): as stated when the exchange answers and the volume to sell
\* is worth at least MIN_USD_BALANCE; when a threshold is met but the sell is
\* too small or the exchange fails, the tick stays in hold with its slice.
C16_HoldSellsOnThresholdIfSellable ==
    Completed /\ tick.pre.mode = "hold" =>
        IF Drawdown \/ Target
        THEN IF ~tick.failed /\ SellNotional >= MIN_USD_BALANCE
             THEN Sold(IF Drawdown THEN "drawdown_reset" ELSE "target")
             ELSE /\ state_file[1].mode = "hold"
                  /\ state_file[1].usd_slice = tick.pre.usd_slice
        ELSE state_file[1].mode = "hold" /\ tick.orders = <<>>

C16_Witness ==
    /\ Completed
    /\ tick.pre.mode = "hold"
    /\ Drawdown
    /\ Sold("drawdown_reset")

\* C17: a completed tick that starts in reset ends in idle exactly when the
\* price is at least BUY_PULLBACK percent below the swing high, ends in reset
\* otherwise, and submits no order either way.
C17_ResetToIdleOnPullback ==
    Completed /\ tick.pre.mode = "reset" =>
        /\ tick.orders = <<>>
        /\ state_file[1].mode \in {"idle", "reset"}
        /\ (state_file[1].mode = "idle" <=> BuyTriggered)

C17_Witness ==
    /\ Completed
    /\ tick.pre.mode = "reset"
    /\ state_file[1].mode = "idle"
    /\ BuyTriggered

\* C18: one tick makes at most one AddOrder call.
C18_AtMostOneAddOrder ==
    wpc \in {"ran", "done", "exited"} => Len(tick.orders) <= 1

C18_Witness ==
    /\ wpc = "ran"
    /\ Len(tick.orders) = 1
    /\ tick.orders[1].side = "sell"

\* C19: an order the exchange executed is never left with the old trading
\* state on disk when the tick has ended.
C19_NoOrderWithOldState ==
    /\ TickEnded
    /\ \E i \in DOMAIN tick.orders : tick.orders[i].executed
    => TradingState(Persisted) # TradingState(tick.pre)

\* C20 (as stated): when the price fetch, a balance fetch or the order
\* submission fails, the persisted state after the tick equals the one before.
C20_FailureLeavesFileUnchanged ==
    TickEnded /\ tick.failed => Persisted = tick.pre

\* C20 (amended): after such a failure mode, entry_price, entry_time and
\* usd_slice are as before the tick; in BTC, ETH and XRP the state file is
\* not written at all.
C20_FailureLeavesTradingStateUnchanged ==
    TickEnded /\ tick.failed =>
        /\ TradingState(Persisted) = TradingState(tick.pre)
        /\ (env.variant # "XMR" => Persisted = tick.pre /\ wpc = "exited")

C20_Witness ==
    /\ TickEnded
    /\ tick.failed
    /\ env.variant = "XMR"
    /\ Persisted # tick.pre
    /\ tick.orders # <<>>

\* C21: after a tick whose order submission failed, the next tick submits
\* no order of the same side (nothing reconciles the state in between).
C21_NoResubmission ==
    [][wpc = "loaded" /\ wpc' = "ran" /\ hist.failed_order # ""
         => \A i \in DOMAIN tick'.orders :
               tick'.orders[i].side # hist.failed_order]_vars

\* C22: whatever the interleaving of the workers, the USD of the buy orders
\* they submit is in total at most the USD available on the account.
C22_NoOverspend == account.submitted <= account.available

\* C23: a tick that completes has written the state file exactly once, with
\* the state it ends with; until then, and in a tick that aborts, the file
\* is not written and holds what the tick loaded.
C23_StateWrittenOnceAtEnd ==
    /\ wpc = "done" => tick.writes = 1 /\ state_file = <<tick.s>>
    /\ wpc \in {"loaded", "ran", "exited"} =>
          tick.writes = 0 /\ Persisted = tick.pre

C23_Witness ==
    /\ wpc = "done"
    /\ tick.writes = 1
    /\ tick.executed
    /\ state_file[1].mode # tick.pre.mode

C25_SwingHighFollowsMax ==
    Completed =>
        /\ state_file[1].last_swing_high =
              IF tick.pre.last_swing_high = None THEN tick.price
              ELSE Max(tick.pre.last_swing_high, tick.price)
        /\ state_file[1].last_swing_high >= tick.pre.last_swing_high
        /\ (tick.pre.last_swing_high # None
              /\ tick.price > tick.pre.last_swing_high
                => ~state_file[1].buy_approach_sent)

C25_Witness ==
    /\ Completed
    /\ tick.pre.buy_approach_sent
    /\ tick.pre.last_swing_high # None
    /\ tick.price > tick.pre.last_swing_high
    /\ state_file[1].last_swing_high = tick.price
    /\ ~state_file[1].buy_approach_sent

\* how often a tick sent the alert msg
Alerts(msg) == Cardinality({i \in DOMAIN tick.alerts : tick.alerts[i] = msg})

\* the gain of the held position has reached SELL_APPROACH
NearTarget ==
    pct_ge(pnl_anchor(env.variant, tick.s, tick.price), tick.price,
           SELL_APPROACH)

\* C26: a tick sends each approach alert at most once and only when it was
\* not yet sent in this leg; the buy-approach alert only in idle with the
\* pullback at or past BUY_APPROACH and not yet at BUY_PULLBACK, the
\* sell-approach alert only in hold with the gain at or past SELL_APPROACH
\* and not yet at SELL_TARGET; and the tick that alerts leaves mode alone.
C26_ApproachAlertsBeforeTrigger ==
    wpc \in {"ran", "done", "exited"} =>
        /\ Alerts("buy_approach") <= 1
        /\ Alerts("sell_approach") <= 1
        /\ Alerts("buy_approach") = 1 =>
              /\ tick.branch = "idle"
              /\ ~tick.pre.buy_approach_sent
              /\ pct_le(tick.s.last_swing_high, tick.price, BUY_APPROACH)
              /\ ~BuyTriggered
              /\ tick.s.mode = "idle"
        /\ Alerts("sell_approach") = 1 =>
              /\ tick.branch = "hold"
              /\ ~tick.pre.sell_approach_sent \/ tick.pre.mode = "idle"
              /\ NearTarget
              /\ ~Target
              /\ tick.s.mode = "hold"

\* C27: a tick sends at most one heartbeat, and a heartbeat comes at least
\* HEARTBEAT_INTERVAL_HOURS after the worker's previous one, also when the
\* tick that sent the previous one failed afterwards.
C27_HeartbeatsSpaced ==
    [][wpc = "loaded" /\ wpc' = "ran" =>
          /\ Alerts("heartbeat")' <= 1
          /\ (Alerts("heartbeat")' = 1 /\ hist.heartbeat # None
                => tick'.now - hist.heartbeat >= HEARTBEAT_INTERVAL_HOURS)]_vars

\* C28: a tick in which Telegram or the event log refuses what is sent
\* decides as the same tick with working delivery: same state, same orders,
\* it aborts only if that one aborts, and the same state is persisted.
C28_DeliveryFailureChangesNothing ==
    wpc \in {"ran", "done", "exited"} /\ ~tick.sink_ok =>
        /\ Outcome(tick) = twin
        /\ (wpc = "done" => state_file = <<twin.s>>)
        /\ (wpc = "exited" => twin.exc)

C28_Witness ==
    /\ wpc = "done"
    /\ ~tick.sink_ok
    /\ tick.warnings >= 2
    /\ tick.orders # <<>>
    /\ tick.s.mode # tick.pre.mode

\* the status the worker process ends with: 0 after save_state, 1 from the
\* except clause of __main__
ExitCode == IF wpc = "exited" THEN 1 ELSE 0

\* C29: a completed tick exits 0, a tick answered with a rate-limited
\* response exits 0 as well, and a tick exits non-zero only after an attempt
\* to send the runtime-error notification.
C29_ExitCodeFollowsOutcome ==
    TickEnded =>
        /\ (Completed => ExitCode = 0)
        /\ (tick.rate_limited => ExitCode = 0)
        /\ (ExitCode # 0 => Alerts("runtime_error") = 1)

\* C30: every sell order, of the protective exit and of the target exit,
\* has as volume the sell fraction f, 0 < f <= 1, of the asset balance
\* fetched in that tick (at the precision of the order's volume).
C30_SellVolumeIsFractionOfBalance ==
    /\ 0 < SELL_FRACTION_PCT
    /\ SELL_FRACTION_PCT <= 100
    /\ wpc \in {"ran", "done", "exited"} =>
          \A i \in DOMAIN tick.orders :
              tick.orders[i].side = "sell" =>
                  /\ tick.called = {"execute_sell"}
                  /\ 2 * Abs(100 * tick.orders[i].volume
                               - SELL_FRACTION_PCT * tick.asset_bal) <= 100

C30_Witness ==
    /\ Completed
    /\ Sold("drawdown_reset")
    /\ tick.asset_bal = (4 * AssetScale) \div 10
    /\ tick.orders[1].volume = AssetScale \div 10

\* the integer the nonce file stores, 0 when it is absent or empty
StoredValue(c) == IF c.kind = "int" THEN c.val ELSE 0

\* C31, as stated: the value a call returns is max(now_ms, stored + 1), and
\* when the call returns the file contains exactly that value.
C31_ReturnsMaxAndFileHoldsIt ==
    [][\A p \in Procs :
          pc[p] = "return" /\ pc'[p] = "idle" =>
              /\ returned' = Append(returned, Max(now[p], last[p] + 1))
              /\ nonce_file = FileInt(nonce[p])]_vars

\* C31, amended: the value is computed as max(now_ms, stored + 1) from the
\* clock and the file as they are under the lock, the file contains exactly
\* that value when the lock is released, and that value is the one returned.
C31_ReturnsMaxAndFileHoldsItAtUnlock ==
    [][\A p \in Procs :
          /\ pc[p] = "now" /\ pc'[p] = "truncate" =>
                nonce'[p] = Max(clock, StoredValue(nonce_file) + 1)
          /\ pc[p] = "unlock" /\ pc'[p] = "return" =>
                nonce_file = FileInt(nonce[p]) /\ nonce'[p] = nonce[p]
          /\ pc[p] = "return" /\ pc'[p] = "idle" =>
                returned' = Append(returned, nonce[p])]_vars

C31_Witness ==
    \E p \in Procs :
        /\ pc[p] = "return"
        /\ last[p] >= now[p]
        /\ nonce[p] = last[p] + 1
        /\ nonce_file # FileInt(nonce[p])

\* the drawdown_reset records the running tick appended to the event log:
\* xmr_drawdown_reset in XMR, <asset>_sell_drawdown_reset elsewhere
DrawdownRecords ==
    Cardinality({i \in DOMAIN tick.events :
                    IF env.variant = "XMR"
                    THEN tick.events[i].type = "drawdown_reset"
                    ELSE tick.events[i] = [type |-> "sell",
                                           reason |-> "drawdown_reset"]})

\* C32: a tick appends a drawdown_reset record only if it sells and goes
\* from hold to reset, such a tick appends exactly one, and a tick that
\* stays in hold appends none.
C32_DrawdownRecordOnlyWithExit ==
    wpc \in {"ran", "done", "exited"} =>
        /\ DrawdownRecords >= 1 =>
              /\ DrawdownRecords = 1
              /\ tick.branch = "hold"
              /\ tick.s.mode = "reset"
              /\ Len(tick.orders) = 1
              /\ tick.orders[1].side = "sell"
        /\ tick.s.mode = "hold" => DrawdownRecords = 0

\* the one order of the running tick went through, on the given side
Traded(side) ==
    /\ Len(tick.orders) = 1
    /\ tick.orders[1].side = side
    /\ tick.executed

\* C33: a buy spends no more than the worker's usd_slice and no more than
\* the live USD balance (its volume is that amount over the price, rounded),
\* it leaves usd_slice = slice_before - spend, a sell leaves
\* usd_slice = slice_before + volume * price, and usd_slice is never
\* negative, in the running tick or in the state file.
C33_SliceAccounting ==
    wpc \in {"ran", "done", "exited"} =>
        /\ Traded("buy") =>
              /\ Spendable <= tick.pre.usd_slice
              /\ Spendable <= tick.usd_bal
              /\ 2 * (tick.orders[1].volume * tick.price - Spendable)
                    <= tick.price
              /\ tick.s.usd_slice = tick.pre.usd_slice - Spendable
        /\ Traded("sell") =>
              tick.s.usd_slice =
                  tick.pre.usd_slice + tick.orders[1].volume * tick.price
        /\ ~tick.executed => tick.s.usd_slice = tick.pre.usd_slice
        /\ tick.s.usd_slice >= 0
        /\ state_file # <<>> => state_file[1].usd_slice >= 0

C33_Witness ==
    /\ Completed
    /\ Traded("buy")
    /\ tick.usd_bal < tick.pre.usd_slice
    /\ state_file[1].usd_slice = tick.pre.usd_slice - tick.usd_bal
    /\ state_file[1].usd_slice > 0

\* the MES processes that run their trading cycle
InCycle == {q \in MesProcs : mes.pc[q] = "cycle"}

\* C34: at most one MES process, swing trader or scalper, runs its trading
\* cycle at any time: one that is started while another holds the global
\* lock does not enter its cycle, and has placed no order when it exits.
C34_OneMesCycleAtATime ==
    /\ Cardinality(InCycle) <= 1
    /\ \A q \in MesProcs : mes.refused[q] => mes.orders[q] = 0

\* the statements of get_nonce() between LOCK_EX and LOCK_UN
UnderLock == {"read", "parse", "now", "truncate", "write", "unlock"}

C36_SwingLowAnchorNeverInDrawdown ==
    env.variant = "ETH" /\ wpc \in {"ran", "done", "exited"} =>
        /\ tick.branch = "hold" =>
              /\ tick.s.last_swing_low <= tick.price
              /\ pct_ge(pnl_anchor("ETH", tick.s, tick.price), tick.price, 0)
              /\ ~Drawdown
        /\ \A i \in DOMAIN tick.events :
              tick.events[i].reason # "drawdown_reset"

C36_Witness ==
    /\ env.variant = "ETH"
    /\ Completed
    /\ tick.pre.mode = "hold"
    /\ tick.pre.last_swing_low # None
    /\ pct_le(tick.pre.last_swing_low, tick.price, DRAWDOWN_RESET)
    /\ state_file[1].mode = "hold"
    /\ state_file[1].last_swing_low = tick.price

\* the running tick submitted a buy order
BuyOrdered ==
    \E i \in DOMAIN tick.orders : tick.orders[i].side = "buy"

\* C37: in the asset-in-hand workers (ETH, SOL, XRP) a buy order is
\* submitted only from the idle branch of a tick whose asset balance, as
\* fetched at its start, is zero; a tick that starts idle with a positive
\* asset balance goes to the hold branch and submits no buy.
C37_NoBuyWithAssetInHand ==
    env.variant \in AssetInHand /\ wpc \in {"ran", "done", "exited"} =>
        /\ BuyOrdered => tick.asset0 = 0 /\ tick.branch = "idle"
        /\ tick.pre.mode = "idle" /\ tick.asset0 > 0 =>
              tick.branch = "hold" /\ ~BuyOrdered

C37_Witness ==
    /\ env.variant \in AssetInHand
    /\ Completed
    /\ tick.pre.mode = "idle"
    /\ tick.asset0 > 0
    /\ tick.pre.last_swing_high # None
    /\ pct_le(tick.pre.last_swing_high, tick.price, BUY_PULLBACK)
    /\ tick.branch = "hold"
    /\ ~BuyOrdered

\* C38: of two invocations of a worker that loaded the same persisted state
\* before either saved, at most one submits an order.
C38_OverlappingTicksOneOrder ==
    \A i \in Invocations, j \in Invocations :
        /\ i # j
        /\ j \in pair.inv[i].with
        /\ pair.inv[i].ver = pair.inv[j].ver
        /\ pair.inv[i].orders # <<>>
        => pair.inv[j].orders = <<>>

\* the mode changes of the lifecycle
ModeEdges == {<<"idle", "hold">>, <<"hold", "reset">>, <<"reset", "idle">>}

\* the modes the running tick went through: as loaded, as the mode branches
\* found it, as left by the branch taken
ModePath == <<tick.pre.mode, tick.branch, tick.s.mode>>

\* C39: a tick changes the mode at most once, and only along idle -> hold,
\* hold -> reset or reset -> idle.
C39_OneLifecycleStepPerTick ==
    wpc \in {"ran", "done", "exited"} /\ tick.branch # "" =>
        /\ ModePath[1] = ModePath[2] \/ ModePath[2] = ModePath[3]
        /\ ModePath[1] # ModePath[3] =>
              <<ModePath[1], ModePath[3]>> \in ModeEdges

\* C40: for a configured asset the result of get_allocatable_usd is 0, or a
\* value r with MIN_TRADE_USD <= r <= usd_total_available.
C40_ResultZeroOrWithinBounds ==
    alloc.pc = "returned" =>
        \/ alloc.result = 0
        \/ MIN_TRADE_USD <= alloc.result /\ alloc.result <= alloc.total

====
